---- MODULE Spec2Model ----
(***************************************************************************)
(* Model of SlyLeopard/schedule-reflow: ReflowService.reflow               *)
(* (src/src/reflow/reflow.service.ts) with its helpers in DateUtils and    *)
(* ConstraintChecker, and the parts of SimpleWorkCenterCalendar that the   *)
(* scheduling properties are stated with.                                  *)
(*                                                                         *)
(* Instants are milliseconds since the epoch, as DateTime.toMillis()       *)
(* gives them.  An ISO date string is the pair of the wall-clock reading   *)
(* it spells and the zone offset it ends with; parsing subtracts the       *)
(* offset, formatting in UTC writes offset 0.  Work order ids are the      *)
(* numbers of WorkOrderIds, ranked as localeCompare ranks the docId strings.  *)
(* Work orders are objects shared by reference between the input array,    *)
(* the sorted arrays and the lookup maps: data[id] is the one `data`       *)
(* record of the order with that docId.                                    *)
(***************************************************************************)
EXTENDS Integers, Sequences, FiniteSets, TLC

VARIABLES
    workOrders,             \* the array passed to reflow (sorted in place)
    workCenters,            \* the work center array passed to reflow
    calendar,               \* docId of a work center -> its calendar
    data,                   \* docId of a work order -> its data record
    planned,                \* data as it was when reflow was called
    received,               \* workOrders as it was when reflow was called
    pc,                     \* position inside reflow
    sortedWorkOrders,       \* reflow's local sortedWorkOrders
    timePointers,           \* reflow's local timePointers map
    scheduledWorkOrders,    \* reflow's local result array
    scheduledWorkOrderMap,  \* keys of reflow's local scheduledWorkOrderMap
    changes,                \* reflow's local changes array
    failure,                \* the error thrown out of reflow, or "none"
    run,                    \* 1 in a first call of reflow, 2 in a call on its Result
    constructorArgs,        \* the arrays given to new SimpleWorkCenterCalendar
    simpleWorkCenterCalendar, \* the fields of the constructed calendar
    call,                   \* the method called on it, arguments and outcome
    calendarPc              \* "idle", or the life of the calendar object

reflowVars == <<workOrders, workCenters, calendar, data, planned, received, pc,
                sortedWorkOrders, timePointers, scheduledWorkOrders,
                scheduledWorkOrderMap, changes, failure, run>>

calendarVars == <<constructorArgs, simpleWorkCenterCalendar, call, calendarPc>>

vars == <<reflowVars, calendarVars>>

----------------------------------------------------------------------------
(* Bounds of the model. *)

MaxStartMinute == 1
MaxDuration == 1
MaxShiftHour == 2
MaxHalfHours == 3
MaxWindowMinute == 3

\* The docIds of the work orders, and of the work centers passed to reflow.
WorkOrderIds == {1, 2, 3}
WorkCenterIds == {1, 2}
UnknownWorkCenterId == 1 + Cardinality(WorkCenterIds)

----------------------------------------------------------------------------
(* Time: luxon's units and the two conversions of DateUtils. *)

MsPerMinute == 60000
MsPerHour == 60 * MsPerMinute
MsPerDay == 24 * MsPerHour
EpochWeekday == 4

\* The zone DateTime.fromMillis gives its result (the system zone).
LocalZoneOffset == MsPerHour

\* DateUtils.stringToDateTime(s).toMillis(): the instant an ISO string names.
stringToDateTime(s) == s.wall - s.off

\* DateTime.toISO() of a DateTime held in UTC.
toISO(t) == [wall |-> t, off |-> 0]

\* DateTime.fromMillis(t).toISO(): the same instant spelled in the system zone.
fromMillisToISO(t) == [wall |-> t + LocalZoneOffset, off |-> LocalZoneOffset]

\* DateUtils.stringUTCtoISO: reparse and respell in UTC.
stringUTCtoISO(s) == toISO(stringToDateTime(s))

Max(a, b) == IF a >= b THEN a ELSE b

MaxOf(S) == CHOOSE x \in S : \A y \in S : y <= x

Range(s) == {s[i] : i \in DOMAIN s}

Front(s) == SubSeq(s, 1, Len(s) - 1)

Last(s) == s[Len(s)]

----------------------------------------------------------------------------
(* ReflowService.sortWorkOrders: the planned-start sort, then Kahn's       *)
(* algorithm over the childWorkOrders and inDegree maps.                   *)

\* String.prototype.localeCompare on two docIds.
localeCompare(a, b) == a - b

\* sortByPlannedStartTimeThenId without its tie-break on the docId.
sortByPlannedStartTimeOnly(a, b) ==
    stringToDateTime(data[a].startDate) - stringToDateTime(data[b].startDate)

\* ReflowService.sortByPlannedStartTimeThenId
sortByPlannedStartTimeThenId(a, b) ==
    LET diff == stringToDateTime(data[a].startDate)
                    - stringToDateTime(data[b].startDate)
    IN  IF diff # 0 THEN diff ELSE localeCompare(a, b)

\* One insertion of Array.prototype.sort (stable): x goes behind every
\* element the comparator does not put after it.
RECURSIVE InsertSorted(_, _)
InsertSorted(s, x) ==
    IF s = <<>> THEN <<x>>
    ELSE IF sortByPlannedStartTimeThenId(Last(s), x) > 0
         THEN Append(InsertSorted(Front(s), x), Last(s))
         ELSE Append(s, x)

\* workOrders.sort(this.sortByPlannedStartTimeThenId)
RECURSIVE ArraySort(_)
ArraySort(s) ==
    IF s = <<>> THEN <<>> ELSE InsertSorted(ArraySort(Front(s)), Last(s))

\* Number of times parentId occurs in a dependsOnWorkOrderIds array.
Occurrences(parentId, deps) ==
    Cardinality({i \in DOMAIN deps : deps[i] = parentId})

Repeat(x, n) == [i \in 1..n |-> x]

\* childWorkOrders.get(parentId) once the building loops are over: the
\* children in the order of the pre-sorted array, one entry per listing.
RECURSIVE ChildWorkOrders(_, _)
ChildWorkOrders(ws, parentId) ==
    IF ws = <<>> THEN <<>>
    ELSE Repeat(Head(ws),
                Occurrences(parentId, data[Head(ws)].dependsOnWorkOrderIds))
            \o ChildWorkOrders(Tail(ws), parentId)

\* The inDegree map once the building loops are over.
InDegree(ws) ==
    [id \in Range(ws) |-> Len(data[id].dependsOnWorkOrderIds)]

\* The queue seeded with the orders of in-degree 0 in reverse order.
InitialQueueReversed(ws) ==
    LET seeds == SelectSeq(ws, LAMBDA id : Len(data[id].dependsOnWorkOrderIds) = 0)
    IN  [i \in DOMAIN seeds |-> seeds[Len(seeds) + 1 - i]]

\* The queue seeded with every order, whatever its in-degree.
InitialQueueOfAll(ws) == ws

\* The queue as seeded: every order of in-degree 0, in pre-sorted order.
InitialQueue(ws) ==
    SelectSeq(ws, LAMBDA id : InDegree(ws)[id] = 0)

\* The inner loop pushing a child at every decrement of its in-degree.
RECURSIVE ReleaseChildrenAtEveryDecrement(_, _, _)
ReleaseChildrenAtEveryDecrement(children, inDegree, queue) ==
    IF children = <<>> THEN [inDegree |-> inDegree, queue |-> queue]
    ELSE LET childId == Head(children)
             dec == [inDegree EXCEPT ![childId] = @ - 1]
         IN  ReleaseChildrenAtEveryDecrement(Tail(children), dec,
                                             Append(queue, childId))

\* The inner loop putting a released child at the front of the queue.
RECURSIVE ReleaseChildrenToFront(_, _, _)
ReleaseChildrenToFront(children, inDegree, queue) ==
    IF children = <<>> THEN [inDegree |-> inDegree, queue |-> queue]
    ELSE LET childId == Head(children)
             dec == [inDegree EXCEPT ![childId] = @ - 1]
         IN  ReleaseChildrenToFront(Tail(children), dec,
                 IF dec[childId] = 0 THEN <<childId>> \o queue ELSE queue)

\* The inner for loop of the Kahn loop over the children of the dequeued
\* order: decrement, and push the child when its in-degree reaches 0.
RECURSIVE ReleaseChildren(_, _, _)
ReleaseChildren(children, inDegree, queue) ==
    IF children = <<>> THEN [inDegree |-> inDegree, queue |-> queue]
    ELSE LET childId == Head(children)
             dec == [inDegree EXCEPT ![childId] = @ - 1]
         IN  ReleaseChildren(Tail(children), dec,
                 IF dec[childId] = 0 THEN Append(queue, childId) ELSE queue)

\* while (queue.length > 0) { shift, push to the sorted list, release }
RECURSIVE KahnLoop(_, _, _, _)
KahnLoop(ws, queue, inDegree, topologicallySortedWorkOrders) ==
    IF queue = <<>> THEN topologicallySortedWorkOrders
    ELSE LET currentWorkOrder == Head(queue)
             r == ReleaseChildren(ChildWorkOrders(ws, currentWorkOrder),
                                  inDegree, Tail(queue))
         IN  KahnLoop(ws, r.queue, r.inDegree,
                      Append(topologicallySortedWorkOrders, currentWorkOrder))

\* checkForCyclicDependencies with the lengths compared the wrong way.
checkForCyclicDependenciesFlipped(originalWorkOrders, sorted) ==
    Len(originalWorkOrders) < Len(sorted)

\* ConstraintChecker.checkForCyclicDependencies
checkForCyclicDependencies(originalWorkOrders, sorted) ==
    Len(originalWorkOrders) # Len(sorted)

\* sortWorkOrders without Kahn's algorithm: the planned-start sort alone.
sortWorkOrdersByPlannedStartAlone(input) ==
    [array  |-> ArraySort(input),
     threw  |-> FALSE,
     result |-> ArraySort(input)]

\* sortWorkOrders as a function of the array it is given: the array as the
\* in-place sort leaves it, and either the returned sequence or the throw.
\* ws and topo each name one value, computed once.
sortWorkOrders(input) ==
    LET Sorted(ws) ==
            CHOOSE r \in {[array  |-> ws,
                           threw  |-> checkForCyclicDependencies(ws, topo),
                           result |-> topo] :
                             topo \in {KahnLoop(ws, InitialQueue(ws),
                                                InDegree(ws), <<>>)}} : TRUE
    IN  CHOOSE r \in {Sorted(ws) : ws \in {ArraySort(input)}} : TRUE

----------------------------------------------------------------------------
(* SimpleWorkCenterCalendar.  A calendar is [maintenanceWindows, shifts];   *)
(* the DateTimes its methods are given are held in UTC, as toUTC() leaves  *)
(* them, so weekday, hour, set and startOf read the UTC wall clock.        *)

\* DateTime.weekday in UTC (1 = Monday .. 7 = Sunday).
Weekday(t) == (((t \div MsPerDay) + EpochWeekday - 1) % 7) + 1

\* time.set({hour: h, minute: 0, second: 0, millisecond: 0})
SetHour(t, h) == (t - (t % MsPerDay)) + h * MsPerHour

\* SimpleWorkCenterCalendar.isWorkingTime
isWorkingTime(cal, time) ==
    \E i \in DOMAIN cal.shifts :
        LET shift == cal.shifts[i]
        IN  /\ shift.dayOfWeek = Weekday(time)
            /\ time >= SetHour(time, shift.startHour)
            /\ time < SetHour(time, shift.endHour)

\* The constructor's maintenanceWindows.slice().sort(by start): one
\* insertion of the stable sort, and the sort.
RECURSIVE InsertWindow(_, _)
InsertWindow(s, w) ==
    IF s = <<>> THEN <<w>>
    ELSE IF Last(s).start - w.start > 0
         THEN Append(InsertWindow(Front(s), w), Last(s))
         ELSE Append(s, w)

RECURSIVE SortWindows(_)
SortWindows(s) ==
    IF s = <<>> THEN <<>> ELSE InsertWindow(SortWindows(Front(s)), Last(s))

\* new SimpleWorkCenterCalendar(maintenanceWindows, shifts)
NewSimpleWorkCenterCalendar(maintenanceWindows, shifts) ==
    [maintenanceWindows |-> SortWindows(maintenanceWindows),
     shifts |-> shifts]

\* getNextMaintenanceAfter looking at the start of a window, not its end.
getNextMaintenanceStartingAfter(cal, time) ==
    LET later == {k \in DOMAIN cal.maintenanceWindows :
                     ~(cal.maintenanceWindows[k].start <= time)}
    IN  IF later = {} THEN 0 ELSE CHOOSE k \in later : \A l \in later : k <= l

\* SimpleWorkCenterCalendar.getNextMaintenanceAfter: the index of the first
\* window, in the sorted array, that ends after time; 0 for null.
getNextMaintenanceAfter(cal, time) ==
    LET later == {k \in DOMAIN cal.maintenanceWindows :
                     ~(cal.maintenanceWindows[k].end <= time)}
    IN  IF later = {} THEN 0 ELSE CHOOSE k \in later : \A l \in later : k <= l

\* The while (true) loop of allocateAroundMaintenance, from a cursor.
RECURSIVE AllocateAroundLoop(_, _, _)
AllocateAroundLoop(cal, cursor, remaining) ==
    LET k == getNextMaintenanceAfter(cal, cursor)
        maintenance == cal.maintenanceWindows[k]
        found == [start |-> cursor, logicalEnd |-> cursor + remaining * MsPerMinute]
    IN  IF k = 0 THEN found
        ELSE IF maintenance.start - cursor >= remaining * MsPerMinute THEN found
        ELSE AllocateAroundLoop(cal, maintenance.end + 1, remaining)

\* SimpleWorkCenterCalendar.allocateAroundMaintenance
allocateAroundMaintenance(cal, earliest, durationMinutes) ==
    AllocateAroundLoop(cal, earliest, durationMinutes)

\* What a calendar method gives its caller: an instant, or an Error.
Returns(t) == [threw |-> "none", value |-> t]
Throws(error) == [threw |-> error, value |-> 0]

StartOfDay(t) == t - (t % MsPerDay)

\* DateTime.hour
Hour(t) == (t % MsPerDay) \div MsPerHour

\* The starts of the day's shifts that the cursor is not past.
ShiftStartsFrom(cal, cursor) ==
    {SetHour(cursor, cal.shifts[i].startHour) :
        i \in {j \in DOMAIN cal.shifts :
                  /\ cal.shifts[j].dayOfWeek = Weekday(cursor)
                  /\ cursor <= SetHour(cursor, cal.shifts[j].startHour)}}

MinOf(S) == CHOOSE x \in S : \A y \in S : x <= y

\* The scan with the last shift start of the day taken, not the first.
RECURSIVE ScanDaysTakingLast(_, _, _)
ScanDaysTakingLast(cal, cursor, i) ==
    IF i >= 7 THEN Throws("NoWorkingTime")
    ELSE IF ShiftStartsFrom(cal, cursor) # {}
         THEN Returns(MaxOf(ShiftStartsFrom(cal, cursor)))
         ELSE ScanDaysTakingLast(cal, StartOfDay(cursor + MsPerDay), i + 1)

\* The for loop of nextWorkingTimeAfter from its i-th day on: the first of
\* the day's shifts, by startHour, that the cursor is not past; else on
\* to the next midnight; the throw after the seventh day.
RECURSIVE ScanDays(_, _, _)
ScanDays(cal, cursor, i) ==
    IF i >= 7 THEN Throws("NoWorkingTime")
    ELSE IF ShiftStartsFrom(cal, cursor) # {}
         THEN Returns(MinOf(ShiftStartsFrom(cal, cursor)))
         ELSE ScanDays(cal, StartOfDay(cursor + MsPerDay), i + 1)

\* SimpleWorkCenterCalendar.nextWorkingTimeAfter
nextWorkingTimeAfter(cal, time) ==
    IF isWorkingTime(cal, time) THEN Returns(time) ELSE ScanDays(cal, time, 0)

\* SimpleWorkCenterCalendar.normalizeToWorkingTime
normalizeToWorkingTime(cal, time) ==
    IF isWorkingTime(cal, time) THEN Returns(time)
    ELSE nextWorkingTimeAfter(cal, time)

\* SimpleWorkCenterCalendar.getShiftEndFor: the end of the first shift of
\* the array that the hour of time falls in.
getShiftEndFor(cal, time) ==
    LET in == {i \in DOMAIN cal.shifts :
                  /\ cal.shifts[i].dayOfWeek = Weekday(time)
                  /\ Hour(time) >= cal.shifts[i].startHour
                  /\ Hour(time) < cal.shifts[i].endHour}
    IN  IF in = {} THEN Throws("NotWithinShift")
        ELSE Returns(SetHour(time,
                 cal.shifts[CHOOSE i \in in : \A j \in in : i <= j].endHour))

\* The while (remaining > 0) loop of allocateWorkingMinutes; remaining is
\* held in milliseconds (the minutes luxon's diff gives are fractional).
RECURSIVE AllocateWorkingLoop(_, _, _)
AllocateWorkingLoop(cal, current, remaining) ==
    IF ~(remaining > 0) THEN Returns(current)
    ELSE LET shiftEnd == getShiftEndFor(cal, current)
             availableMinutes == shiftEnd.value - current
             next == nextWorkingTimeAfter(cal, shiftEnd.value + 1)
         IN  IF shiftEnd.threw # "none" THEN shiftEnd
             ELSE IF remaining <= availableMinutes
                  THEN Returns(current + remaining)
             ELSE IF next.threw # "none" THEN next
             ELSE AllocateWorkingLoop(cal, next.value, remaining - availableMinutes)

\* SimpleWorkCenterCalendar.allocateWorkingMinutes
allocateWorkingMinutes(cal, start, durationMinutes) ==
    LET current == normalizeToWorkingTime(cal, start)
    IN  IF current.threw # "none" THEN current
        ELSE AllocateWorkingLoop(cal, current.value, durationMinutes * MsPerMinute)

----------------------------------------------------------------------------
(* ReflowService.scheduleWorkOrder and ReflowService.reflow                *)

\* getDependenciesMetTime keeping the earlier of the two instants.
RECURSIVE getDependenciesMetTimeEarliest(_)
getDependenciesMetTimeEarliest(deps) ==
    IF deps = <<>> THEN 0
    ELSE LET parentEndDate == stringToDateTime(data[Last(deps)].endDate)
             dependenciesMetTime == getDependenciesMetTimeEarliest(Front(deps))
         IN  IF parentEndDate < dependenciesMetTime
             THEN parentEndDate ELSE dependenciesMetTime

\* ReflowService.getDependenciesMetTime: the latest stored end among the
\* parents, starting from DateTime.fromMillis(0).
RECURSIVE getDependenciesMetTime(_)
getDependenciesMetTime(deps) ==
    IF deps = <<>> THEN 0
    ELSE LET parentEndDate == stringToDateTime(data[Last(deps)].endDate)
             dependenciesMetTime == getDependenciesMetTime(Front(deps))
         IN  IF parentEndDate > dependenciesMetTime
             THEN parentEndDate ELSE dependenciesMetTime

\* The start computed without the time pointer of the work center.
StartTimeMillisWithoutPointer(id) ==
    Max(stringToDateTime(data[id].startDate),
        getDependenciesMetTime(data[id].dependsOnWorkOrderIds))

\* The start computed without the planned start of the order.
StartTimeMillisWithoutPlanned(id) ==
    Max(timePointers[data[id].workCenterId],
        getDependenciesMetTime(data[id].dependsOnWorkOrderIds))

\* Math.max(timePointer, initialStartTime, dependencyMetTime), in millis.
StartTimeMillis(id) ==
    Max(Max(timePointers[data[id].workCenterId],
            stringToDateTime(data[id].startDate)),
        getDependenciesMetTime(data[id].dependsOnWorkOrderIds))

\* The end counted from the planned start, not from the computed one.
EndTimeMillisFromPlannedStart(id) ==
    stringToDateTime(data[id].startDate) + data[id].durationMinutes * MsPerMinute

\* DateTime.fromMillis(startTimeMillis).plus({ minutes: duration })
EndTimeMillis(id) == StartTimeMillis(id) + data[id].durationMinutes * MsPerMinute

\* The guard that takes every order as changed.
HasChangedAlways(id) == TRUE

\* The guard that compares the start alone.
HasChangedStartAlone(id) ==
    StartTimeMillis(id) # stringToDateTime(data[id].startDate)

\* The guard with the new end compared to the planned start.
HasChangedAgainstStart(id) ==
    \/ StartTimeMillis(id) # stringToDateTime(data[id].startDate)
    \/ EndTimeMillis(id) # stringToDateTime(data[id].startDate)

\* The test that guards the rewrite of the order and the Change.
HasChanged(id) ==
    \/ StartTimeMillis(id) # stringToDateTime(data[id].startDate)
    \/ EndTimeMillis(id) # stringToDateTime(data[id].endDate)

\* The Change record with the old start taken from the new time.
MakeChangeOldFromNew(id) ==
    [workOrderId  |-> id,
     oldStartTime |-> toISO(StartTimeMillis(id)),
     newStartTime |-> stringUTCtoISO(fromMillisToISO(StartTimeMillis(id))),
     oldEndTime   |-> toISO(stringToDateTime(data[id].endDate)),
     newEndTime   |-> stringUTCtoISO(fromMillisToISO(EndTimeMillis(id))),
     delayReason  |-> "Delayed due to dependencies"]

\* The Change record scheduleWorkOrder builds.
MakeChange(id) ==
    [workOrderId  |-> id,
     oldStartTime |-> toISO(stringToDateTime(data[id].startDate)),
     newStartTime |-> stringUTCtoISO(fromMillisToISO(StartTimeMillis(id))),
     oldEndTime   |-> toISO(stringToDateTime(data[id].endDate)),
     newEndTime   |-> stringUTCtoISO(fromMillisToISO(EndTimeMillis(id))),
     delayReason  |-> "Delayed due to dependencies"]

\* The Change put in front of the array instead of behind it.
PushChangeInFront(array, change) == <<change>> \o array

\* changes.push(change)
PushChange(array, change) == Append(array, change)

\* DateUtils.initializeTimePointers with the end of the minute that
\* startTime names.
initializeTimePointersAMinuteOn(centers, startTime) ==
    [wc \in Range(centers) |-> stringToDateTime(startTime) + MsPerMinute]

\* DateUtils.initializeTimePointers
initializeTimePointers(centers, startTime) ==
    [wc \in Range(centers) |-> stringToDateTime(startTime)]

\* The end written to the pointer of every work center.
SetEveryTimePointer(pointers, workCenterId, endTime) ==
    [wc \in DOMAIN pointers |-> endTime]

\* timePointers.set(workCenter.docId, endTime)
SetTimePointer(pointers, workCenterId, endTime) ==
    [pointers EXCEPT ![workCenterId] = endTime]

\* The order reflow's for loop is at.
NextIndex == Len(scheduledWorkOrders) + 1

\* reflow line 28: sortWorkOrders sorts the caller's array in place and
\* returns the dependency order, or throws.
SortWorkOrders ==
    /\ pc = "sort"
    /\ LET r == sortWorkOrders(workOrders)
       IN  /\ workOrders' = r.array
           /\ IF r.threw
              THEN /\ pc' = "failed"
                   /\ failure' = "CyclicDependency"
                   /\ sortedWorkOrders' = sortedWorkOrders
              ELSE /\ pc' = "init"
                   /\ failure' = failure
                   /\ sortedWorkOrders' = r.result
    /\ UNCHANGED <<workCenters, calendar, data, planned, received,
                   timePointers,
                   scheduledWorkOrders, scheduledWorkOrderMap, changes>>
    /\ UNCHANGED <<run, calendarVars>>

\* reflow lines 30-37: the work center lookup and
\* DateUtils.initializeTimePointers(workCenters, sortedWorkOrders[0]...).
InitializeTimePointers ==
    /\ pc = "init"
    /\ IF sortedWorkOrders = <<>>
       THEN /\ pc' = "failed"
            /\ failure' = "TypeError"
            /\ timePointers' = timePointers
       ELSE /\ pc' = "schedule"
            /\ failure' = failure
            /\ timePointers' =
                  initializeTimePointers(workCenters,
                                         data[sortedWorkOrders[1]].startDate)
    /\ UNCHANGED <<workOrders, workCenters, calendar, data, planned, received,
                   sortedWorkOrders, scheduledWorkOrders,
                   scheduledWorkOrderMap, changes>>
    /\ UNCHANGED <<run, calendarVars>>

\* One iteration of reflow's for loop: scheduleWorkOrder on the next order
\* (lines 136-173), then the pushes of lines 53-59.
ScheduleWorkOrder ==
    /\ pc = "schedule"
    /\ NextIndex <= Len(sortedWorkOrders)
    /\ LET id == sortedWorkOrders[NextIndex]
       IN  IF \/ data[id].workCenterId \notin Range(workCenters)
              \/ \E i \in DOMAIN data[id].dependsOnWorkOrderIds :
                     data[id].dependsOnWorkOrderIds[i]
                         \notin scheduledWorkOrderMap
           THEN /\ pc' = "failed"
                /\ failure' = "TypeError"
                /\ UNCHANGED <<data, timePointers, scheduledWorkOrders,
                               scheduledWorkOrderMap, changes>>
           ELSE /\ data' =
                     IF HasChanged(id)
                     THEN [data EXCEPT
                             ![id].startDate =
                                 stringUTCtoISO(fromMillisToISO(StartTimeMillis(id))),
                             ![id].endDate =
                                 stringUTCtoISO(fromMillisToISO(EndTimeMillis(id)))]
                     ELSE data
                /\ changes' =
                     IF HasChanged(id)
                     THEN PushChange(changes, MakeChange(id)) ELSE changes
                /\ timePointers' =
                     SetTimePointer(timePointers, data[id].workCenterId,
                                    EndTimeMillis(id))
                /\ scheduledWorkOrders' = Append(scheduledWorkOrders, id)
                /\ scheduledWorkOrderMap' = scheduledWorkOrderMap \cup {id}
                /\ UNCHANGED <<pc, failure>>
    /\ UNCHANGED <<workOrders, workCenters, calendar, planned, received,
                   sortedWorkOrders>>
    /\ UNCHANGED <<run, calendarVars>>

\* reflow lines 62-65: the Result is (scheduledWorkOrders, changes).
Return ==
    /\ pc = "schedule"
    /\ NextIndex > Len(sortedWorkOrders)
    /\ pc' = "done"
    /\ UNCHANGED <<workOrders, workCenters, calendar, data, planned, received,
                   sortedWorkOrders, timePointers, scheduledWorkOrders,
                   scheduledWorkOrderMap, changes, failure>>
    /\ UNCHANGED <<run, calendarVars>>

Next ==
    \/ SortWorkOrders
    \/ InitializeTimePointers
    \/ ScheduleWorkOrder
    \/ Return

----------------------------------------------------------------------------
(* The inputs reflow is called with.                                       *)

\* Planned starts lie in the minutes from 00:59 UTC of the epoch day on, so
\* that a shift ending at 01:00 can end inside a planned interval.
PlanOrigin == MsPerHour - MsPerMinute

StartMinutes == 0..MaxStartMinute
Durations == -1..MaxDuration
EndSkews == {0, 1}
Offsets == {0, 2 * MsPerHour}
WorkCenterRefs == WorkCenterIds \cup {UnknownWorkCenterId}

\* Arrays of distinct work orders: every arrangement of every subset.
RECURSIVE DistinctSeqs(_)
DistinctSeqs(S) ==
    {<<>>} \cup UNION {{<<x>> \o t : t \in DistinctSeqs(S \ {x})} : x \in S}

Identity == [i \in 1..Cardinality(WorkOrderIds) |-> i]

\* dependsOnWorkOrderIds arrays: at most one entry; at most two entries
\* (an id may be listed twice); any set of orders of smaller id.
SingleDeps == {<<>>} \cup {<<p>> : p \in WorkOrderIds}
DepLists ==
    SingleDeps \cup {<<pq[1], pq[2]>> :
                        pq \in {x \in WorkOrderIds \X WorkOrderIds : x[1] <= x[2]}}
RECURSIVE SetToSeq(_)
SetToSeq(S) ==
    IF S = {} THEN <<>>
    ELSE LET m == CHOOSE x \in S : \A y \in S : x <= y
         IN  <<m>> \o SetToSeq(S \ {m})
EarlierDeps(id) == {SetToSeq(S) : S \in SUBSET (1..(id - 1))}

\* A WorkOrder.data record planned at PlanOrigin + st minutes for du
\* minutes, its endDate sk minutes off start + duration, its dates spelled
\* with zone offset off.
WorkOrderData(wc, st, du, sk, off, deps) ==
    LET start == PlanOrigin + st * MsPerMinute
        end == start + (du + sk) * MsPerMinute
    IN  [workCenterId          |-> wc,
         startDate             |-> [wall |-> start + off, off |-> off],
         endDate               |-> [wall |-> end + off, off |-> off],
         durationMinutes       |-> du,
         isMaintenance         |-> FALSE,
         dependsOnWorkOrderIds |-> deps]

\* Calendars: always open on the epoch day; with a maintenance window over
\* the second planned minute; with one shift that ends at 01:00.
OpenCalendar ==
    [maintenanceWindows |-> <<>>,
     shifts |-> <<[dayOfWeek |-> EpochWeekday, startHour |-> 0, endHour |-> 23]>>]
MaintenanceCalendar ==
    [maintenanceWindows |->
        <<[start |-> PlanOrigin + MsPerMinute, end |-> PlanOrigin + 2 * MsPerMinute]>>,
     shifts |-> OpenCalendar.shifts]
ShortShiftCalendar ==
    [maintenanceWindows |-> <<>>,
     shifts |-> <<[dayOfWeek |-> EpochWeekday, startHour |-> 0, endHour |-> 1]>>]
AllOpen == [wc \in WorkCenterIds |-> OpenCalendar]

\* No calendar object is under test while reflow runs.
NoCalendar == [maintenanceWindows |-> <<>>, shifts |-> <<>>]
NoCall == [method |-> "none"]

\* The state reflow starts from, for a given array, data and calendars.
Start(array, d, cals) ==
    /\ workOrders = array
    /\ workCenters = SetToSeq(WorkCenterIds)
    /\ calendar = cals
    /\ data = d
    /\ planned = d
    /\ received = array
    /\ pc = "sort"
    /\ sortedWorkOrders = <<>>
    /\ timePointers = <<>>
    /\ scheduledWorkOrders = <<>>
    /\ scheduledWorkOrderMap = {}
    /\ changes = <<>>
    /\ failure = "none"
    /\ run = 1
    /\ constructorArgs = NoCalendar
    /\ simpleWorkCenterCalendar = NoCalendar
    /\ call = NoCall
    /\ calendarPc = "idle"

\* Any array of distinct orders in any arrangement, planned starts and at
\* most one predecessor each varying (orders left out of the array keep
\* their defaults; an id left out can still be named as a predecessor).
InitOrderings ==
    \E array \in DistinctSeqs(WorkOrderIds) :
    \E st \in [WorkOrderIds -> StartMinutes], dp \in [WorkOrderIds -> SingleDeps] :
        /\ \A id \in WorkOrderIds \ Range(array) : st[id] = 0 /\ dp[id] = <<>>
        /\ Start(array,
                 [id \in WorkOrderIds |->
                     WorkOrderData(1, st[id], 1, 0, 0, dp[id])],
                 AllOpen)

\* Every dependency graph with up to two listings per order.
InitGraphs ==
    \E st \in [WorkOrderIds -> StartMinutes], dp \in [WorkOrderIds -> DepLists] :
        Start(Identity,
              [id \in WorkOrderIds |->
                  WorkOrderData(1, st[id], 1, 0, 0, dp[id])],
              AllOpen)

\* Work centers, planned starts and durations varying over acyclic graphs
\* (the first order on the first center: the centers are interchangeable).
InitTimes ==
    \E wc \in [WorkOrderIds -> WorkCenterIds], st \in [WorkOrderIds -> StartMinutes],
       du \in [WorkOrderIds -> Durations] :
    \E dp \in [WorkOrderIds -> UNION {EarlierDeps(id) : id \in WorkOrderIds}] :
        /\ \A id \in WorkOrderIds : dp[id] \in EarlierDeps(id)
        /\ wc[1] = 1
        /\ Start(Identity,
                 [id \in WorkOrderIds |->
                     WorkOrderData(wc[id], st[id], du[id], 0, 0, dp[id])],
                 AllOpen)

\* Planned starts one minute further apart, over acyclic graphs on one
\* center: a gap can lie between two planned intervals.
InitIdleGaps ==
    \E st \in [WorkOrderIds -> 0..(MaxStartMinute + 1)] :
    \E dp \in [WorkOrderIds -> UNION {EarlierDeps(id) : id \in WorkOrderIds}] :
        /\ \A id \in WorkOrderIds : dp[id] \in EarlierDeps(id)
        /\ Start(Identity,
                 [id \in WorkOrderIds |->
                     WorkOrderData(1, st[id], 1, 0, 0, dp[id])],
                 AllOpen)

\* Calendars varying: maintenance windows and shifts over the planned times.
InitCalendars ==
    \E wc \in [WorkOrderIds -> WorkCenterIds], st \in [WorkOrderIds -> StartMinutes] :
    \E cals \in [WorkCenterIds -> {OpenCalendar, MaintenanceCalendar, ShortShiftCalendar}],
       chain \in BOOLEAN :
        Start(Identity,
              [id \in WorkOrderIds |->
                  WorkOrderData(wc[id], st[id], 1, 0, 0,
                                IF chain /\ id > 1 THEN <<id - 1>> ELSE <<>>)],
              cals)

\* Planned ends and date spellings varying: an endDate that is not
\* startDate + duration, dates written with a zone offset.
InitSpellings ==
    \E st \in [WorkOrderIds -> StartMinutes], sk \in [WorkOrderIds -> EndSkews],
       off \in [WorkOrderIds -> Offsets], chain \in BOOLEAN :
        Start(Identity,
              [id \in WorkOrderIds |->
                  WorkOrderData(1, st[id], 1, sk[id], off[id],
                                IF chain /\ id > 1 THEN <<id - 1>> ELSE <<>>)],
              AllOpen)

\* Work center references varying, the id of no work center among them.
InitReferences ==
    \E wc \in [WorkOrderIds -> WorkCenterRefs], st \in [WorkOrderIds -> StartMinutes],
       chain \in BOOLEAN :
        Start(Identity,
              [id \in WorkOrderIds |->
                  WorkOrderData(wc[id], st[id], 1, 0, 0,
                                IF chain /\ id > 1 THEN <<id - 1>> ELSE <<>>)],
              AllOpen)

\* Orders flagged as immovable maintenance blocks among the others, on one
\* center, alone or in a chain.
InitImmovable ==
    \E mt \in [WorkOrderIds -> BOOLEAN], st \in [WorkOrderIds -> StartMinutes],
       chain \in BOOLEAN :
        Start(Identity,
              [id \in WorkOrderIds |->
                  [WorkOrderData(1, st[id], 1, 0, 0,
                                 IF chain /\ id > 1 THEN <<id - 1>> ELSE <<>>)
                      EXCEPT !.isMaintenance = mt[id]]],
              AllOpen)

\* Four orders on one center: two without predecessors, and two that
\* depend on one of them or on both (the last one possibly on the third).
FourOrders == 1..(1 + Cardinality(WorkOrderIds))
InitTwoParents ==
    \E st \in [FourOrders -> StartMinutes] :
    \E d3 \in {<<1>>, <<2>>, <<1, 2>>}, d4 \in {<<1>>, <<2>>, <<1, 2>>, <<3>>} :
        Start([i \in FourOrders |-> i],
              [id \in FourOrders |->
                  WorkOrderData(1, st[id], 1, 0, 0,
                                IF id = 3 THEN d3 ELSE IF id = 4 THEN d4 ELSE <<>>)],
              AllOpen)

Init ==
    \/ InitOrderings
    \/ InitGraphs
    \/ InitTimes
    \/ InitIdleGaps
    \/ InitCalendars
    \/ InitSpellings
    \/ InitReferences
    \/ InitImmovable
    \/ InitTwoParents

Spec == Init /\ [][Next]_vars

\* The first orders of the array, none or any number of them, planned at
\* the same minute on one center: the first two list at most one
\* predecessor, the last one up to two, so that the graphs have chains,
\* cycles, joins and predecessors that are not in the array.
InitPrefixes ==
    \E n \in 0..Cardinality(WorkOrderIds) :
    \E dp \in [WorkOrderIds -> DepLists] :
        /\ \A id \in WorkOrderIds :
               /\ id > n => dp[id] = <<>>
               /\ id < Cardinality(WorkOrderIds) => dp[id] \in SingleDeps
        /\ Start(SubSeq(Identity, 1, n),
                 [id \in WorkOrderIds |-> WorkOrderData(1, 0, 1, 0, 0, dp[id])],
                 AllOpen)

\* Independent orders planned at the same minute, their work center
\* references varying, the id of no work center among them.
InitLooseReferences ==
    \E wc \in [WorkOrderIds -> WorkCenterRefs] :
        Start(Identity,
              [id \in WorkOrderIds |-> WorkOrderData(wc[id], 0, 1, 0, 0, <<>>)],
              AllOpen)

\* reflow runs to its end: its steps are the steps of one sequential call,
\* none of which waits for anything.
FairInit ==
    \/ InitOrderings
    \/ InitPrefixes
    \/ InitLooseReferences

FairSpec == FairInit /\ [][Next]_vars /\ WF_vars(Next)

\* reflow called again on the Result of a call that returned, with the same
\* work centers: the array is Result.resultingWorkOrders, the orders are
\* the objects the first call rewrote.
Rerun ==
    /\ pc = "done" /\ run = 1
    /\ run' = 2
    /\ workOrders' = scheduledWorkOrders
    /\ received' = scheduledWorkOrders
    /\ planned' = data
    /\ pc' = "sort"
    /\ sortedWorkOrders' = <<>>
    /\ timePointers' = <<>>
    /\ scheduledWorkOrders' = <<>>
    /\ scheduledWorkOrderMap' = {}
    /\ changes' = <<>>
    /\ UNCHANGED <<workCenters, calendar, data, failure>>
    /\ UNCHANGED calendarVars

RerunNext ==
    \/ SortWorkOrders
    \/ InitializeTimePointers
    \/ ScheduleWorkOrder
    \/ Return
    \/ Rerun

\* Five 1-minute orders: three without predecessors on either center, and
\* two on the first center that each depend on one of the three.
FiveOrders == 1..(2 + Cardinality(WorkOrderIds))
InitThreeParents ==
    \E wc \in [WorkOrderIds -> WorkCenterIds], st \in [WorkOrderIds -> StartMinutes] :
    \E d4 \in WorkOrderIds, d5 \in WorkOrderIds :
        Start([i \in FiveOrders |-> i],
              [id \in FiveOrders |->
                  IF id \in WorkOrderIds
                  THEN WorkOrderData(wc[id], st[id], 1, 0, 0, <<>>)
                  ELSE WorkOrderData(1, 0, 1, 0, 0,
                                     IF id = 4 THEN <<d4>> ELSE <<d5>>)],
              AllOpen)

RerunInit ==
    \/ InitTimes
    \/ InitSpellings
    \/ InitTwoParents
    \/ InitThreeParents

RerunSpec == RerunInit /\ [][RerunNext]_vars

----------------------------------------------------------------------------
(* A SimpleWorkCenterCalendar on its own: constructed from the arrays it   *)
(* is given, then asked one of its allocation methods.                     *)

\* new SimpleWorkCenterCalendar(...): the constructor sorts a copy of the
\* windows and keeps the shifts; it rejects nothing.
Construct ==
    /\ calendarPc = "new"
    /\ simpleWorkCenterCalendar' =
           NewSimpleWorkCenterCalendar(constructorArgs.maintenanceWindows,
                                       constructorArgs.shifts)
    /\ calendarPc' = "ready"
    /\ UNCHANGED <<constructorArgs, call>>
    /\ UNCHANGED reflowVars

\* Instants the shift methods are called with: the hours and half hours
\* of Thursday, Friday and Saturday of the epoch week.
ShiftTimes ==
    {d * MsPerDay + h * MsPerHour + m * 30 * MsPerMinute :
        d \in 0..2, h \in 0..(MaxShiftHour + 1), m \in 0..1}
WorkingDurations == {30 * k : k \in 0..MaxHalfHours}

\* Instants and durations allocateAroundMaintenance is called with.
WindowTimes == {m * MsPerMinute : m \in 0..MaxWindowMinute}
AroundDurations == 0..(MaxDuration + 1)

AllocateAroundMaintenance ==
    /\ calendarPc = "ready"
    /\ \E earliest \in WindowTimes, durationMinutes \in AroundDurations :
           call' = [method |-> "allocateAroundMaintenance",
                    time |-> earliest, durationMinutes |-> durationMinutes,
                    result |-> allocateAroundMaintenance(simpleWorkCenterCalendar,
                                   earliest, durationMinutes)]
    /\ calendarPc' = "returned"
    /\ UNCHANGED <<constructorArgs, simpleWorkCenterCalendar>>
    /\ UNCHANGED reflowVars

NextWorkingTimeAfter ==
    /\ calendarPc = "ready"
    /\ \E time \in ShiftTimes :
           call' = [method |-> "nextWorkingTimeAfter",
                    time |-> time, durationMinutes |-> 0,
                    result |-> nextWorkingTimeAfter(simpleWorkCenterCalendar, time)]
    /\ calendarPc' = "returned"
    /\ UNCHANGED <<constructorArgs, simpleWorkCenterCalendar>>
    /\ UNCHANGED reflowVars

AllocateWorkingMinutes ==
    /\ calendarPc = "ready"
    /\ \E start \in ShiftTimes, durationMinutes \in WorkingDurations :
           call' = [method |-> "allocateWorkingMinutes",
                    time |-> start, durationMinutes |-> durationMinutes,
                    result |-> allocateWorkingMinutes(simpleWorkCenterCalendar,
                                   start, durationMinutes)]
    /\ calendarPc' = "returned"
    /\ UNCHANGED <<constructorArgs, simpleWorkCenterCalendar>>
    /\ UNCHANGED reflowVars

CalendarNext ==
    \/ Construct
    \/ AllocateAroundMaintenance
    \/ NextWorkingTimeAfter
    \/ AllocateWorkingMinutes

\* Shift definitions on Thursday and Friday, hours in range, the end not
\* always after the start.
ShiftDefinitions ==
    {[dayOfWeek |-> d, startHour |-> s, endHour |-> e] :
        d \in {EpochWeekday, EpochWeekday + 1},
        s \in 0..MaxShiftHour, e \in 0..MaxShiftHour}

\* Maintenance windows over the first minutes of the epoch day.
MaintenanceWindows ==
    {w \in {[start |-> a * MsPerMinute, end |-> b * MsPerMinute] :
               a \in 0..MaxWindowMinute, b \in 1..(MaxWindowMinute + 1)} :
        w.start < w.end}

UpToTwo(S) == {<<>>} \cup {<<x>> : x \in S} \cup {<<x, y>> : x \in S, y \in S}

\* No reflow is running while a calendar is under test.
ReflowIdle ==
    /\ workOrders = <<>> /\ workCenters = <<>> /\ calendar = <<>>
    /\ data = <<>> /\ planned = <<>> /\ received = <<>>
    /\ pc = "idle"
    /\ sortedWorkOrders = <<>> /\ timePointers = <<>>
    /\ scheduledWorkOrders = <<>> /\ scheduledWorkOrderMap = {}
    /\ changes = <<>> /\ failure = "none" /\ run = 0

\* The constructor is given up to two shifts and no window, or up to two
\* windows (in any order, overlapping or not) and no shift.
CalendarInit ==
    /\ ReflowIdle
    /\ calendarPc = "new"
    /\ call = NoCall
    /\ simpleWorkCenterCalendar = NoCalendar
    /\ \/ \E shifts \in UpToTwo(ShiftDefinitions) :
              constructorArgs = [maintenanceWindows |-> <<>>, shifts |-> shifts]
       \/ \E windows \in UpToTwo(MaintenanceWindows) :
              constructorArgs = [maintenanceWindows |-> windows, shifts |-> <<>>]

CalendarSpec == CalendarInit /\ [][CalendarNext]_vars

----------------------------------------------------------------------------
(* allocateAroundMaintenance iteration by iteration: while the method runs *)
(* `call` holds its locals, cursor and remaining, with the windows that    *)
(* getNextMaintenanceAfter has given it so far.                            *)

\* allocateAroundMaintenance lines 137-138: remaining and cursor are set.
EnterAllocateAroundMaintenance ==
    /\ calendarPc = "ready"
    /\ \E earliest \in WindowTimes, durationMinutes \in AroundDurations :
           call' = [method |-> "allocateAroundMaintenance",
                    time |-> earliest, durationMinutes |-> durationMinutes,
                    remaining |-> durationMinutes, cursor |-> earliest,
                    iterations |-> 0, skipped |-> <<>>]
    /\ calendarPc' = "allocating"
    /\ UNCHANGED <<constructorArgs, simpleWorkCenterCalendar>>
    /\ UNCHANGED reflowVars

\* The cursor left at the start of the window it could not fit before.
MoveToMaintenanceStart(maintenance) == maintenance.start

\* Line 163: cursor = maintenance.end.plus({ milliseconds: 1 })
MovePastMaintenance(maintenance) == maintenance.end + 1

\* One iteration of the while (true) loop, lines 141-165: return the block
\* at the cursor when no window is left or the gap before the next one is
\* long enough, else move the cursor past that window.
AllocateAroundIteration ==
    /\ calendarPc = "allocating"
    /\ LET cal == simpleWorkCenterCalendar
           k == getNextMaintenanceAfter(cal, call.cursor)
           maintenance == cal.maintenanceWindows[k]
           found == [start |-> call.cursor,
                     logicalEnd |-> call.cursor + call.remaining * MsPerMinute]
           returned == [method |-> call.method, time |-> call.time,
                        durationMinutes |-> call.durationMinutes,
                        remaining |-> call.remaining, cursor |-> call.cursor,
                        iterations |-> call.iterations + 1,
                        skipped |-> call.skipped, result |-> found]
       IN  IF k = 0
           THEN call' = returned /\ calendarPc' = "returned"
           ELSE IF maintenance.start - call.cursor >= call.remaining * MsPerMinute
           THEN call' = returned /\ calendarPc' = "returned"
           ELSE /\ call' = [call EXCEPT
                                !.cursor = MovePastMaintenance(maintenance),
                                !.iterations = @ + 1,
                                !.skipped = Append(@, k)]
                /\ calendarPc' = "allocating"
    /\ UNCHANGED <<constructorArgs, simpleWorkCenterCalendar>>
    /\ UNCHANGED reflowVars

AroundNext ==
    \/ Construct
    \/ EnterAllocateAroundMaintenance
    \/ AllocateAroundIteration

\* Maintenance windows over the first minutes of the epoch day, those of
\* length zero among them.
WindowsOfAnyLength ==
    {w \in {[start |-> a * MsPerMinute, end |-> b * MsPerMinute] :
               a \in 0..MaxWindowMinute, b \in 0..(MaxWindowMinute + 1)} :
        w.start <= w.end}

UpToThree(S) == UpToTwo(S) \cup {<<x, y, z>> : x \in S, y \in S, z \in S}

\* The constructor is given up to three windows, in any order, apart,
\* overlapping, nested, equal or of length zero, and no shift.
AroundInit ==
    /\ ReflowIdle
    /\ calendarPc = "new"
    /\ call = NoCall
    /\ simpleWorkCenterCalendar = NoCalendar
    /\ \E windows \in UpToThree(WindowsOfAnyLength) :
           constructorArgs = [maintenanceWindows |-> windows, shifts |-> <<>>]

\* The method runs to its end: its iterations are the steps of one
\* sequential call, none of which waits for anything.
AroundSpec == AroundInit /\ [][AroundNext]_vars /\ WF_vars(AroundNext)

----------------------------------------------------------------------------
(* Vocabulary of the properties.                                           *)

InputOrders == Range(workOrders)
Parents(id) == Range(data[id].dependsOnWorkOrderIds)
StartOf(id) == stringToDateTime(data[id].startDate)
EndOf(id) == stringToDateTime(data[id].endDate)
PlannedStartOf(id) == stringToDateTime(planned[id].startDate)
PlannedEndOf(id) == stringToDateTime(planned[id].endDate)
DurationMs(id) == data[id].durationMinutes * MsPerMinute
CenterOf(id) == data[id].workCenterId
Returned == pc = "done"
NonNegativeDurations == \A id \in InputOrders : data[id].durationMinutes >= 0

\* The predecessors of an order, direct and indirect, inside the input.
RECURSIVE Closure(_)
Closure(S) ==
    LET T == S \cup (UNION {Parents(x) : x \in S} \cap InputOrders)
    IN  IF T = S THEN S ELSE Closure(T)
Ancestors(id) == Closure(Parents(id) \cap InputOrders)
HasCycle == \E id \in InputOrders : id \in Ancestors(id)
PredecessorsExist == \A id \in InputOrders : Parents(id) \subseteq InputOrders

\* Position of an order in Result.resultingWorkOrders.
Position(seq, id) == CHOOSE i \in DOMAIN seq : seq[i] = id

\* [s1, e1) and [s2, e2) have an instant in common.
Overlap(s1, e1, s2, e2) == s1 < e1 /\ s2 < e2 /\ s1 < e2 /\ s2 < e1

----------------------------------------------------------------------------
\* C1: Ordering invariant. For every acyclic input whose predecessor ids
\* all exist and whose durations are >= 0, once reflow has returned every
\* order A and every predecessor B of A satisfy end(B) <= start(A).
C1_OrderingInvariant ==
    (Returned /\ ~HasCycle /\ PredecessorsExist /\ NonNegativeDurations)
        => \A a \in InputOrders : \A b \in Parents(a) : EndOf(b) <= StartOf(a)

\* A returned run in which an order planned before its predecessor's end
\* was pushed to that end.
C1_Witness ==
    /\ Returned /\ NonNegativeDurations
    /\ \E a \in InputOrders : \E b \in Parents(a) :
           /\ PlannedStartOf(a) < EndOf(b)
           /\ StartOf(a) = EndOf(b)
           /\ Cardinality(Parents(a)) = 2

\* C2 as stated: once reflow has returned, the intervals of the orders of
\* one work center are pairwise non-overlapping and their starts are
\* non-decreasing in the order of Result.resultingWorkOrders.
C2_PerCenterNonOverlap_AsStated ==
    Returned =>
        \A i \in DOMAIN scheduledWorkOrders : \A j \in DOMAIN scheduledWorkOrders :
            LET a == scheduledWorkOrders[i]
                b == scheduledWorkOrders[j]
            IN  (i < j /\ CenterOf(a) = CenterOf(b)) =>
                    /\ ~Overlap(StartOf(a), EndOf(a), StartOf(b), EndOf(b))
                    /\ StartOf(a) <= StartOf(b)

\* C2 amended: the same for every input whose durations are all >= 0.
C2_PerCenterNonOverlap ==
    NonNegativeDurations => C2_PerCenterNonOverlap_AsStated

\* A returned run in which two orders planned over the same minute of one
\* center were put one behind the other.
C2_Witness ==
    /\ Returned /\ NonNegativeDurations
    /\ \E a \in InputOrders : \E b \in InputOrders :
           /\ a # b /\ CenterOf(a) = CenterOf(b)
           /\ Overlap(PlannedStartOf(a), PlannedEndOf(a),
                      PlannedStartOf(b), PlannedEndOf(b))
           /\ StartOf(b) = EndOf(a)
           /\ StartOf(a) < EndOf(a)

\* C3: Maintenance exclusion. Once reflow has returned, no order's
\* [start, end) meets a maintenance window of its work center.
C3_MaintenanceExclusion ==
    Returned =>
        \A id \in InputOrders :
            \A k \in DOMAIN calendar[CenterOf(id)].maintenanceWindows :
                LET w == calendar[CenterOf(id)].maintenanceWindows[k]
                IN  ~Overlap(StartOf(id), EndOf(id), w.start, w.end)

\* C4: Shift containment. Once reflow has returned, the start of every
\* order and every minute of its work is working time of its work center.
C4_ShiftContainment ==
    Returned =>
        \A id \in InputOrders :
            /\ isWorkingTime(calendar[CenterOf(id)], StartOf(id))
            /\ \A m \in 0..(data[id].durationMinutes - 1) :
                   isWorkingTime(calendar[CenterOf(id)],
                                 StartOf(id) + m * MsPerMinute)

\* The candidate of an order about to be scheduled, from the cursor of its
\* center, its planned start and the ends of its predecessors.
Candidate(id) ==
    MaxOf({timePointers[CenterOf(id)], PlannedStartOf(id)}
              \cup {0} \cup {EndOf(b) : b \in Parents(id)})

\* No calendar constraint binds at the candidate: the block at the
\* candidate is working time and meets no maintenance window.
CalendarFree(id) ==
    LET cal == calendar[CenterOf(id)]
    IN  /\ isWorkingTime(cal, Candidate(id))
        /\ \A m \in 0..(data[id].durationMinutes - 1) :
               isWorkingTime(cal, Candidate(id) + m * MsPerMinute)
        /\ \A k \in DOMAIN cal.maintenanceWindows :
               ~Overlap(Candidate(id), Candidate(id) + DurationMs(id),
                        cal.maintenanceWindows[k].start,
                        cal.maintenanceWindows[k].end)

\* The step of the for loop schedules the order id.
Schedules(id) ==
    /\ pc = "schedule" /\ NextIndex <= Len(sortedWorkOrders)
    /\ sortedWorkOrders[NextIndex] = id
    /\ scheduledWorkOrders' = Append(scheduledWorkOrders, id)

\* C5: Candidate start. When no calendar constraint binds, the step that
\* schedules an order stores as its start exactly the maximum of the
\* cursor of its center, its planned start and the latest end among its
\* predecessors (the epoch if none); so the start is not before any of
\* the three.
C5_CandidateStart ==
    [][\A id \in WorkOrderIds :
          (Schedules(id) /\ CalendarFree(id)) =>
              /\ StartOf(id)' = Candidate(id)
              /\ StartOf(id)' >= PlannedStartOf(id)
              /\ StartOf(id)' >= timePointers[CenterOf(id)]
              /\ \A b \in Parents(id) : StartOf(id)' >= EndOf(b)]_vars

\* An order was stored at the end of a predecessor, later than both its
\* planned start and the cursor of its center.
C5_Witness ==
    \E id \in Range(scheduledWorkOrders) : \E b \in Parents(id) :
        /\ StartOf(id) = EndOf(b)
        /\ StartOf(id) > PlannedStartOf(id)
        /\ CenterOf(b) # CenterOf(id)
        /\ isWorkingTime(calendar[CenterOf(id)], StartOf(id))

\* C6: Cycle detection. For every input whose dependency graph has a cycle
\* (an order depending on itself, a mutual dependency, a longer cycle),
\* sortWorkOrders throws the cyclic-dependency error, and reflow fails
\* with it without scheduling any order.
C6_CycleDetection ==
    HasCycle =>
        /\ sortWorkOrders(workOrders).threw
        /\ pc # "sort" =>
              /\ pc = "failed" /\ failure = "CyclicDependency"
              /\ scheduledWorkOrders = <<>> /\ changes = <<>>
              /\ data = planned

\* reflow has failed on a cycle that runs through three orders.
C6_Witness ==
    /\ pc = "failed" /\ failure = "CyclicDependency"
    /\ \E id \in InputOrders :
           /\ id \in Ancestors(id)
           /\ id \notin Parents(id)
           /\ \A b \in Parents(id) : id \notin Parents(b)

IsPermutation(seq, S) == Len(seq) = Cardinality(S) /\ Range(seq) = S

\* C7: Topological order. For every acyclic input whose predecessor ids
\* exist (ids are unique), sortWorkOrders returns a permutation of the
\* input in which every order comes after all its predecessors, and
\* Result.resultingWorkOrders is that sequence.
C7_TopologicalOrder ==
    (pc # "sort" /\ ~HasCycle /\ PredecessorsExist) =>
        /\ failure # "CyclicDependency"
        /\ IsPermutation(sortedWorkOrders, InputOrders)
        /\ \A a \in InputOrders : \A b \in Parents(a) :
               Position(sortedWorkOrders, b) < Position(sortedWorkOrders, a)
        /\ Returned => scheduledWorkOrders = sortedWorkOrders

\* A returned run in which an order of smaller id and earlier planned
\* start than its predecessor was put behind it.
C7_Witness ==
    /\ Returned
    /\ \E a \in InputOrders : \E b \in Parents(a) :
           /\ a < b /\ PlannedStartOf(a) < PlannedStartOf(b)
           /\ Position(scheduledWorkOrders, b) < Position(scheduledWorkOrders, a)

\* Every arrangement of the elements of an array.
Arrangements(seq) ==
    {[i \in DOMAIN seq |-> seq[f[i]]] :
        f \in {g \in [DOMAIN seq -> DOMAIN seq] :
                  \A i \in DOMAIN seq : \A j \in DOMAIN seq : g[i] = g[j] => i = j}}

\* What a caller sees of sortWorkOrders: the throw, or the sequence.
Outcome(r) == IF r.threw THEN <<"CyclicDependency">> ELSE r.result

\* sortWorkOrders has just been run on the array reflow received.
JustSorted == pc = "init" \/ (pc = "failed" /\ failure = "CyclicDependency")

\* What it gave reflow: the throw, or the sequence.
RunOutcome == IF pc = "failed" THEN <<"CyclicDependency">> ELSE sortedWorkOrders

\* Whatever arrangement of the received orders sortWorkOrders is given,
\* it throws or not, and returns the same sequence, as it did on the
\* received array.
SortIsArrangementBlind ==
    JustSorted =>
        \A p \in Arrangements(received) : Outcome(sortWorkOrders(p)) = RunOutcome

\* Ascending id order among the orders of equal planned start that Rel
\* relates, in the sequence sortWorkOrders returns.
AscendingIds(seq, Rel(_, _)) ==
    \A i \in DOMAIN seq : \A j \in DOMAIN seq :
        (seq[j] < seq[i] /\ StartOf(seq[i]) = StartOf(seq[j])
            /\ Rel(seq[i], seq[j])) => j < i

\* Neither order is a predecessor, direct or indirect, of the other.
Independent(a, b) == a \notin Ancestors(b) /\ b \notin Ancestors(a)

\* C8 as stated: sortWorkOrders returns the same sequence for every
\* arrangement of the same orders, and two independent orders with the
\* same planned start come out in ascending id order.
C8_TieBreakDeterminism_AsStated ==
    /\ SortIsArrangementBlind
    /\ pc = "init" => AscendingIds(sortedWorkOrders, Independent)

BothWithoutPredecessors(a, b) == Parents(a) = {} /\ Parents(b) = {}

\* C8 amended: the same sequence for every arrangement, and two orders
\* without predecessors and with the same planned start come out in
\* ascending id order.
C8_TieBreakDeterminism ==
    /\ SortIsArrangementBlind
    /\ pc = "init" => AscendingIds(sortedWorkOrders, BothWithoutPredecessors)

\* sortWorkOrders has returned, in ascending id order, two orders without
\* predecessors and with the same planned start that the received array
\* listed the other way round.
C8_Witness ==
    /\ pc = "init"
    /\ \E i \in DOMAIN received : \E j \in DOMAIN received :
           LET a == received[j]
               b == received[i]
           IN  /\ i < j /\ a < b /\ StartOf(a) = StartOf(b)
               /\ Parents(a) = {} /\ Parents(b) = {}
               /\ Position(sortedWorkOrders, a) < Position(sortedWorkOrders, b)

ChangesFor(id) == {k \in DOMAIN changes : changes[k].workOrderId = id}

\* reflow left the dates of the order as planned and recorded no Change.
Untouched(id) == data[id] = planned[id] /\ ChangesFor(id) = {}

\* The planned instants of the order satisfy the constraints C9 names:
\* planned end = planned start + duration, planned start not before the
\* scheduled end of a predecessor, planned interval clear of the scheduled
\* interval of every other order of its center.
PlanSatisfiesConstraints(id) ==
    /\ PlannedEndOf(id) = PlannedStartOf(id) + DurationMs(id)
    /\ \A b \in Parents(id) : EndOf(b) <= PlannedStartOf(id)
    /\ \A o \in InputOrders \ {id} :
           CenterOf(o) = CenterOf(id) =>
               ~Overlap(PlannedStartOf(id), PlannedEndOf(id), StartOf(o), EndOf(o))

\* The input plan is feasible as given: planned ends fit the durations,
\* no order is planned before the planned end of a predecessor, and the
\* planned intervals of one center do not overlap.
PlanFeasibleAsGiven ==
    \A id \in InputOrders :
        /\ PlannedEndOf(id) = PlannedStartOf(id) + DurationMs(id)
        /\ \A b \in Parents(id) : PlannedEndOf(b) <= PlannedStartOf(id)
        /\ \A o \in InputOrders \ {id} :
               CenterOf(o) = CenterOf(id) =>
                   ~Overlap(PlannedStartOf(id), PlannedEndOf(id),
                            PlannedStartOf(o), PlannedEndOf(o))

\* C9 as stated (and only for durations > 0): an order whose planned
\* instants satisfy the constraints gets no Change and keeps its dates; a
\* plan feasible as given yields an empty change list.
C9_NoOpIdempotence_AsStated ==
    (Returned /\ \A id \in InputOrders : data[id].durationMinutes > 0) =>
        /\ \A id \in InputOrders : PlanSatisfiesConstraints(id) => Untouched(id)
        /\ PlanFeasibleAsGiven => changes = <<>>

\* The cursor of the order's work center at the moment the order was
\* processed: the end of the order processed last before it on that
\* center, or the initial cursor (the planned start of the first order).
CursorBefore(id) ==
    LET i == Position(scheduledWorkOrders, id)
        earlier == {j \in 1..(i - 1) :
                       CenterOf(scheduledWorkOrders[j]) = CenterOf(id)}
    IN  IF earlier = {} THEN PlannedStartOf(scheduledWorkOrders[1])
        ELSE EndOf(scheduledWorkOrders[MaxOf(earlier)])

\* C9 amended: an order whose planned instants satisfy the constraints and
\* whose planned start is not before the cursor of its work center at the
\* moment it is processed gets no Change and keeps its dates; an input in
\* which every order is such yields an empty change list.
C9_NoOpIdempotence ==
    Returned =>
        /\ \A id \in InputOrders :
               (PlanSatisfiesConstraints(id) /\ CursorBefore(id) <= PlannedStartOf(id))
                   => Untouched(id)
        /\ (\A id \in InputOrders :
               PlanSatisfiesConstraints(id) /\ CursorBefore(id) <= PlannedStartOf(id))
               => changes = <<>>

\* A returned run that moved some order and left untouched an order with
\* a predecessor, planned exactly at the cursor of its center.
C9_Witness ==
    /\ Returned /\ changes # <<>>
    /\ \E id \in InputOrders :
           /\ PlanSatisfiesConstraints(id)
           /\ CursorBefore(id) = PlannedStartOf(id)
           /\ Parents(id) # {}
           /\ Untouched(id)

\* C10: Change exactness. Result.changes holds a Change for an order if
\* and only if its scheduled start or end differs from the planned one;
\* the old instants of the record are the planned ones and its new dates
\* are the dates stored in the order.
C10_ChangeExactness ==
    Returned =>
        \A id \in InputOrders :
            /\ ChangesFor(id) # {}
                  <=> (StartOf(id) # PlannedStartOf(id) \/ EndOf(id) # PlannedEndOf(id))
            /\ \A k \in ChangesFor(id) :
                  /\ stringToDateTime(changes[k].oldStartTime) = PlannedStartOf(id)
                  /\ stringToDateTime(changes[k].oldEndTime) = PlannedEndOf(id)
                  /\ changes[k].newStartTime = data[id].startDate
                  /\ changes[k].newEndTime = data[id].endDate

\* The scenario of the spec with the minute as unit: X alone as planned, Y
\* depending on X on the same center and planned before X ends, moved to
\* start at X's end; exactly one Change, for Y.
C10_Witness ==
    /\ Returned /\ Len(changes) = 1
    /\ \E x \in InputOrders : \E y \in InputOrders :
           /\ InputOrders = {x, y}
           /\ Parents(x) = {} /\ Parents(y) = {x} /\ CenterOf(x) = CenterOf(y)
           /\ Untouched(x)
           /\ PlannedStartOf(y) < EndOf(x)
           /\ StartOf(y) = EndOf(x) /\ EndOf(y) = StartOf(y) + DurationMs(y)
           /\ changes[1].workOrderId = y
           /\ stringToDateTime(changes[1].newStartTime) = EndOf(x)

\* reflow has ended, with a Result or with a failure.
Ended == pc = "done" \/ pc = "failed"

\* C11: Immovable orders. Once reflow has returned, an order flagged
\* isMaintenance = true has its planned start and end and no Change is
\* recorded for it, whatever the cursor of its center and the ends of its
\* predecessors.
C11_ImmovableOrders ==
    Returned =>
        \A id \in InputOrders :
            data[id].isMaintenance =>
                /\ StartOf(id) = PlannedStartOf(id)
                /\ EndOf(id) = PlannedEndOf(id)
                /\ ChangesFor(id) = {}

\* Some order of the input names a work center that was not passed.
UnknownWorkCenterReference ==
    \E id \in InputOrders : CenterOf(id) \notin Range(workCenters)

\* C12: Unknown work center. When an order of a sortable input names a
\* work center that is not in the input, reflow ends in a failure of its
\* own kind, distinct from the cyclic-dependency failure and from the
\* TypeError of a dereferenced missing entry; no Result is returned.
C12_UnknownWorkCenter ==
    (Ended /\ UnknownWorkCenterReference /\ ~HasCycle /\ PredecessorsExist) =>
        /\ pc = "failed"
        /\ failure \notin {"none", "CyclicDependency", "TypeError"}

\* C13: No partial outcome on failure. Whenever reflow has failed, every
\* input order has the start and end it was supplied with.
C13_NoPartialOutcome ==
    pc = "failed" =>
        \A id \in InputOrders :
            /\ StartOf(id) = PlannedStartOf(id)
            /\ EndOf(id) = PlannedEndOf(id)

\* C19: Change-log order. Result.changes holds at most one Change per work
\* order, and the Changes come in the order in which their orders come in
\* Result.resultingWorkOrders.
C19_ChangeLogOrder ==
    Returned =>
        /\ \A id \in InputOrders : Cardinality(ChangesFor(id)) <= 1
        /\ \A k \in DOMAIN changes : \A l \in DOMAIN changes :
               k < l => Position(scheduledWorkOrders, changes[k].workOrderId)
                            < Position(scheduledWorkOrders, changes[l].workOrderId)

\* A returned run with two Changes, the one of the larger id first, and an
\* order processed between two changed ones that has no Change.
C19_Witness ==
    /\ Returned /\ Len(changes) = 2
    /\ changes[1].workOrderId > changes[2].workOrderId
    /\ \E id \in InputOrders :
           /\ ChangesFor(id) = {}
           /\ Position(scheduledWorkOrders, changes[1].workOrderId)
                  < Position(scheduledWorkOrders, id)
           /\ Position(scheduledWorkOrders, id)
                  < Position(scheduledWorkOrders, changes[2].workOrderId)

\* C20: Cycle failure only on cycles. sortWorkOrders throws the
\* cyclic-dependency error only if the dependency graph of the input has
\* a cycle; an input without one (an order naming a predecessor that is
\* not in the input, or naming one predecessor twice) is not reported as
\* cyclic.
C20_CycleFailureOnlyOnCycles ==
    /\ sortWorkOrders(workOrders).threw => HasCycle
    /\ failure = "CyclicDependency" => HasCycle

\* C21: Monotonic cursor. During a run with durations >= 0 the cursor of
\* each work center never decreases from one step of the loop to the
\* next, and right after an order is scheduled the cursor of its center
\* is the scheduled end of that order.
C21_MonotonicCursor ==
    [][(pc = "schedule" /\ NonNegativeDurations) =>
          /\ \A wc \in DOMAIN timePointers : timePointers'[wc] >= timePointers[wc]
          /\ \A id \in InputOrders :
                 Schedules(id) => timePointers'[CenterOf(id)] = EndOf(id)']_vars

\* The loop is under way with durations >= 0: the cursor of one center
\* has advanced twice and stands at the end of the order scheduled last,
\* the cursor of the other center is where it started.
C21_Witness ==
    /\ pc = "schedule" /\ NonNegativeDurations
    /\ Len(scheduledWorkOrders) = 2
    /\ \E wc \in DOMAIN timePointers : \E other \in DOMAIN timePointers :
           /\ CenterOf(scheduledWorkOrders[1]) = wc
           /\ CenterOf(scheduledWorkOrders[2]) = wc
           /\ timePointers[wc] = EndOf(scheduledWorkOrders[2])
           /\ timePointers[wc] > EndOf(scheduledWorkOrders[1])
           /\ EndOf(scheduledWorkOrders[1]) > PlannedStartOf(sortedWorkOrders[1])
           /\ timePointers[other] = PlannedStartOf(sortedWorkOrders[1])

\* C22: Frame of one scheduling step. Scheduling an order of work center
\* C leaves the cursor of every other center and the data of every other
\* order as they were; it changes only C's cursor, that order's start
\* and end, the entry of that order in the scheduled-order map, the
\* result array, and appends at most one Change, for that order.
C22_FrameOfOneStep ==
    [][\A id \in InputOrders :
          Schedules(id) =>
              /\ \A wc \in DOMAIN timePointers \ {CenterOf(id)} :
                     timePointers'[wc] = timePointers[wc]
              /\ DOMAIN timePointers' = DOMAIN timePointers
              /\ \A o \in DOMAIN data \ {id} : data'[o] = data[o]
              /\ data'[id] = [data[id] EXCEPT !.startDate = data'[id].startDate,
                                              !.endDate = data'[id].endDate]
              /\ scheduledWorkOrderMap' = scheduledWorkOrderMap \cup {id}
              /\ \/ changes' = changes
                 \/ /\ Len(changes') = Len(changes) + 1
                    /\ SubSeq(changes', 1, Len(changes)) = changes
                    /\ Last(changes').workOrderId = id
              /\ UNCHANGED <<workOrders, workCenters, calendar, sortedWorkOrders,
                             pc, failure>>]_vars

\* With orders on both centers, an order of one center has just been moved
\* behind another one of that center, with a Change, while an order
\* scheduled before on the other center stays where it was put.
C22_Witness ==
    /\ pc = "schedule" /\ Len(scheduledWorkOrders) = 3
    /\ LET a == scheduledWorkOrders[1]
           b == scheduledWorkOrders[2]
           c == scheduledWorkOrders[3]
       IN  /\ CenterOf(a) = CenterOf(c) /\ CenterOf(b) # CenterOf(a)
           /\ StartOf(c) = EndOf(a) /\ StartOf(c) > PlannedStartOf(c)
           /\ Len(changes) = 1 /\ changes[1].workOrderId = c
           /\ timePointers[CenterOf(b)] = EndOf(b)
           /\ timePointers[CenterOf(b)] < timePointers[CenterOf(c)]

\* C23: Predecessors already scheduled. In every run that reaches the
\* scheduling loop, each id in the dependsOnWorkOrderIds of the order
\* about to be scheduled is in the scheduled-order map, so that
\* getDependenciesMetTime finds every parent it looks up.
C23_PredecessorsScheduled ==
    (pc = "schedule" /\ NextIndex <= Len(sortedWorkOrders)) =>
        Parents(sortedWorkOrders[NextIndex]) \subseteq scheduledWorkOrderMap

\* The loop is about to schedule an order with two predecessors, planned
\* before one of them and of smaller id than one of them.
C23_Witness ==
    /\ pc = "schedule" /\ NextIndex <= Len(sortedWorkOrders)
    /\ LET id == sortedWorkOrders[NextIndex]
       IN  /\ Cardinality(Parents(id)) = 2
           /\ Parents(id) \subseteq scheduledWorkOrderMap
           /\ \E b \in Parents(id) : id < b /\ PlannedStartOf(id) < PlannedStartOf(b)

\* The orders of the input that list a predecessor, and those that do not.
Dependents == {id \in InputOrders : Parents(id) # {}}
Seeds == InputOrders \ Dependents

\* The place, in the sequence sortWorkOrders returned, of the predecessor
\* of the order that was dequeued last: the dequeue that released it.
ReleasedAt(id) == MaxOf({Position(sortedWorkOrders, b) : b \in Parents(id)})

\* (planned start, id) of a comes before that of b.
PreSortedBefore(a, b) ==
    \/ StartOf(a) < StartOf(b)
    \/ StartOf(a) = StartOf(b) /\ a < b

\* C24: FIFO readiness order. Among the orders that have predecessors the
\* sequence sortWorkOrders returns follows the order in which the last
\* remaining predecessor of each was dequeued, and orders released by
\* the same dequeue keep their (planned start, id) order; a later
\* release never overtakes an earlier one, whatever the planned starts.
C24_FifoReadinessOrder ==
    pc = "init" =>
        \A a \in Dependents : \A b \in Dependents \ {a} :
            (\/ ReleasedAt(a) < ReleasedAt(b)
             \/ ReleasedAt(a) = ReleasedAt(b) /\ PreSortedBefore(a, b))
                => Position(sortedWorkOrders, a) < Position(sortedWorkOrders, b)

\* sortWorkOrders has returned two orders released by different parents,
\* neither depending on the other: the one released first comes first
\* although it is planned later and has the larger id.
C24_Witness ==
    /\ pc = "init"
    /\ \E a \in Dependents : \E b \in Dependents :
           /\ ReleasedAt(a) < ReleasedAt(b)
           /\ Independent(a, b)
           /\ StartOf(b) < StartOf(a) /\ b < a
           /\ Position(sortedWorkOrders, a) < Position(sortedWorkOrders, b)

\* C25: Seeds first. In the sequence sortWorkOrders returns every order
\* without predecessors comes before every order with predecessors, and
\* the orders without predecessors come in ascending (planned start, id)
\* order, however early a dependent order is planned.
C25_SeedsFirst ==
    pc = "init" =>
        /\ \A a \in Seeds : \A b \in Dependents :
               Position(sortedWorkOrders, a) < Position(sortedWorkOrders, b)
        /\ \A a \in Seeds : \A b \in Seeds :
               PreSortedBefore(a, b) =>
                   Position(sortedWorkOrders, a) < Position(sortedWorkOrders, b)

\* sortWorkOrders has returned two orders without predecessors, the one
\* of larger id first for its earlier planned start, ahead of a dependent
\* order that is planned before one of them.
C25_Witness ==
    /\ pc = "init"
    /\ \E a \in Seeds : \E b \in Seeds : \E c \in Dependents :
           /\ b < a /\ StartOf(a) < StartOf(b)
           /\ Position(sortedWorkOrders, a) < Position(sortedWorkOrders, b)
           /\ StartOf(c) < StartOf(b) /\ a \notin Parents(c)
           /\ Position(sortedWorkOrders, b) < Position(sortedWorkOrders, c)

\* The planned start of the first order of the dependency-resolved
\* sequence.
FirstPlannedStart == PlannedStartOf(sortedWorkOrders[1])

\* C26: Initial cursor is harmless. Every cursor starts at the planned
\* start of the first order of the sorted sequence, the least planned
\* start among the orders without predecessors; with durations >= 0 that
\* value is, for every order, at most the larger of its planned start and
\* the scheduled end of its latest predecessor.
C26_InitialCursorHarmless ==
    /\ (pc = "schedule" /\ scheduledWorkOrders = <<>>) =>
           /\ \A wc \in DOMAIN timePointers : timePointers[wc] = FirstPlannedStart
           /\ DOMAIN timePointers = Range(workCenters)
           /\ \A id \in Seeds : FirstPlannedStart <= PlannedStartOf(id)
           /\ sortedWorkOrders[1] \in Seeds
    /\ (Returned /\ NonNegativeDurations) =>
           \A id \in InputOrders :
               FirstPlannedStart
                   <= MaxOf({PlannedStartOf(id)} \cup {EndOf(b) : b \in Parents(id)})

\* A returned run with durations >= 0 in which an order was planned
\* before the initial cursor, on a center no other order is on, and
\* starts at the end of its predecessor.
C26_Witness ==
    /\ Returned /\ NonNegativeDurations
    /\ \E id \in Dependents :
           /\ PlannedStartOf(id) < FirstPlannedStart
           /\ \A o \in InputOrders \ {id} : CenterOf(o) # CenterOf(id)
           /\ \E b \in Parents(id) : StartOf(id) = EndOf(b)

\* reflow, called on the Result of a first call, has returned.
ReturnedAgain == run = 2 /\ pc = "done"

\* The second call found nothing to change.
NothingChanged ==
    /\ changes = <<>>
    /\ \A id \in InputOrders :
           StartOf(id) = PlannedStartOf(id) /\ EndOf(id) = PlannedEndOf(id)

\* C27 as stated (and only for durations > 0): reflow run on the orders
\* returned by a first successful run, with the same work centers, gives
\* an empty change list and leaves every start and end as it was.
C27_FixedPoint_AsStated ==
    (ReturnedAgain /\ \A id \in InputOrders : data[id].durationMinutes > 0)
        => NothingChanged

\* C27 amended: the same whenever the second run processes the orders in
\* the sequence of the first, i.e. sortWorkOrders returns the array
\* Result.resultingWorkOrders it is given.
C27_FixedPoint ==
    (ReturnedAgain /\ sortedWorkOrders = received) => NothingChanged

\* A second run has returned, in the sequence of the first, orders that
\* the first run had moved past every planned start of the input.
C27_Witness ==
    /\ ReturnedAgain /\ sortedWorkOrders = received
    /\ changes = <<>>
    /\ \E id \in InputOrders : \E b \in Parents(id) :
           /\ StartOf(id) > PlanOrigin + MaxStartMinute * MsPerMinute
           /\ StartOf(id) = EndOf(b)

\* C28: Duration invariant. After reflow returns, every order of
\* Result.resultingWorkOrders, changed or not, has stored end = stored
\* start + durationMinutes; an order whose planned end was not its
\* planned start + duration has been rewritten and has a Change.
C28_DurationInvariant ==
    Returned =>
        \A id \in Range(scheduledWorkOrders) :
            /\ EndOf(id) = StartOf(id) + DurationMs(id)
            /\ PlannedEndOf(id) # PlannedStartOf(id) + DurationMs(id) =>
                   /\ ChangesFor(id) # {}
                   /\ \A k \in ChangesFor(id) :
                          /\ changes[k].newStartTime = data[id].startDate
                          /\ changes[k].newEndTime = data[id].endDate

\* A returned run in which an order kept its planned start and had its
\* planned end, a minute off start + duration, rewritten with a Change.
C28_Witness ==
    /\ Returned
    /\ \E id \in InputOrders :
           /\ PlannedEndOf(id) = PlannedStartOf(id) + DurationMs(id) + MsPerMinute
           /\ StartOf(id) = PlannedStartOf(id)
           /\ EndOf(id) = StartOf(id) + DurationMs(id)
           /\ ChangesFor(id) # {}

\* C29: Empty input. reflow called with an empty array of work orders
\* returns a Result with no order and no Change; it does not fail.
C29_EmptyInput ==
    (received = <<>> /\ Ended) =>
        /\ pc = "done"
        /\ scheduledWorkOrders = <<>> /\ changes = <<>>

NoDuplicates(seq) ==
    \A i \in DOMAIN seq : \A j \in DOMAIN seq : seq[i] = seq[j] => i = j

\* C30: Run termination. Every run of reflow ends, with a Result or with
\* a failure; the Kahn loop of sortWorkOrders dequeues each order at most
\* once, on cyclic input too, and the scheduling loop handles each order
\* of the sorted sequence exactly once.
C30_RunTermination ==
    /\ <>Ended
    /\ [](/\ NoDuplicates(sortWorkOrders(received).result)
          /\ Range(sortWorkOrders(received).result) \subseteq Range(received)
          /\ NoDuplicates(scheduledWorkOrders)
          /\ Len(scheduledWorkOrders) <= Len(sortedWorkOrders)
          /\ scheduledWorkOrders
                 = SubSeq(sortedWorkOrders, 1, Len(scheduledWorkOrders))
          /\ Returned => scheduledWorkOrders = sortedWorkOrders)

\* reflow has failed on a cyclic input after the Kahn loop dequeued an
\* order with two children, one of them on the cycle, and the queue ran
\* empty.
C30_Witness ==
    /\ pc = "failed" /\ failure = "CyclicDependency"
    /\ LET result == sortWorkOrders(workOrders).result
       IN  /\ Len(result) = 2
           /\ Len(workOrders) = 3
           /\ result[1] \in Parents(result[2])
           /\ \E id \in InputOrders \ Range(result) :
                  result[1] \in Parents(id) /\ id \in Parents(id)

----------------------------------------------------------------------------
(* Vocabulary of the calendar properties.                                  *)

\* The method named has been called on the constructed calendar.
Called(method) == calendarPc = "returned" /\ call.method = method

ValidShift(shift) == shift.startHour < shift.endHour
ShiftsValid(cal) == \A i \in DOMAIN cal.shifts : ValidShift(cal.shifts[i])

\* No two shifts of the calendar share an hour of a weekday.
ShiftsDisjoint(cal) ==
    \A i \in DOMAIN cal.shifts : \A j \in DOMAIN cal.shifts :
        (i # j /\ cal.shifts[i].dayOfWeek = cal.shifts[j].dayOfWeek) =>
            \/ cal.shifts[i].endHour <= cal.shifts[j].startHour
            \/ cal.shifts[j].endHour <= cal.shifts[i].startHour

Min(a, b) == IF a <= b THEN a ELSE b

\* The shift i of the calendar on the day that begins at midnight.
ShiftStartOn(cal, i, midnight) == midnight + cal.shifts[i].startHour * MsPerHour
ShiftEndOn(cal, i, midnight) == midnight + cal.shifts[i].endHour * MsPerHour

\* Milliseconds of [a, b) inside the occurrences, given as <<day, shift>>
\* pairs, of the shifts of the calendar.
RECURSIVE WorkingMsIn(_, _, _, _)
WorkingMsIn(cal, a, b, occurrences) ==
    IF occurrences = {} THEN 0
    ELSE LET o == CHOOSE x \in occurrences : TRUE
             midnight == o[1] * MsPerDay
             from == Max(a, ShiftStartOn(cal, o[2], midnight))
             to == Min(b, ShiftEndOn(cal, o[2], midnight))
         IN  (IF from < to THEN to - from ELSE 0)
                 + WorkingMsIn(cal, a, b, occurrences \ {o})

\* Working time, in milliseconds, contained in [a, b).
WorkingMs(cal, a, b) ==
    WorkingMsIn(cal, a, b,
        {o \in ((a \div MsPerDay)..(b \div MsPerDay)) \X DOMAIN cal.shifts :
            cal.shifts[o[2]].dayOfWeek = Weekday(o[1] * MsPerDay)})

\* t is the start of a shift of the calendar.
IsShiftStart(cal, t) ==
    \E i \in DOMAIN cal.shifts :
        /\ cal.shifts[i].dayOfWeek = Weekday(t)
        /\ ShiftStartOn(cal, i, StartOfDay(t)) = t

\* t is the end of a shift of the calendar.
IsShiftEnd(cal, t) ==
    \E i \in DOMAIN cal.shifts :
        /\ cal.shifts[i].dayOfWeek = Weekday(t)
        /\ ShiftEndOn(cal, i, StartOfDay(t)) = t

\* C14: nextWorkingTimeAfter never fails on a schedulable calendar. On a
\* calendar whose shifts all have startHour < endHour it returns an
\* instant for every t if the calendar has a shift, and throws the
\* no-working-time error only if the calendar has no shift at all.
C14_NeverFailsOnSchedulableCalendar ==
    (Called("nextWorkingTimeAfter") /\ ShiftsValid(simpleWorkCenterCalendar)) =>
        (call.result.threw = "none" <=> simpleWorkCenterCalendar.shifts # <<>>)

C16_AllocateAroundMaintenance ==
    Called("allocateAroundMaintenance") =>
        LET r == call.result
            windows == constructorArgs.maintenanceWindows
        IN  /\ r.start >= call.time
            /\ r.logicalEnd = r.start + call.durationMinutes * MsPerMinute
            /\ \A k \in DOMAIN windows :
                   ~Overlap(r.start, r.logicalEnd, windows[k].start, windows[k].end)

\* Called with earliest inside a window, with a second window too close
\* behind the first for the block to fit in between: the block starts
\* just past the end of the second window.
C16_Witness ==
    /\ Called("allocateAroundMaintenance")
    /\ call.durationMinutes > 0
    /\ \E k \in DOMAIN constructorArgs.maintenanceWindows :
       \E l \in DOMAIN constructorArgs.maintenanceWindows :
           LET w == constructorArgs.maintenanceWindows[k]
               v == constructorArgs.maintenanceWindows[l]
           IN  /\ w.start < call.time /\ call.time < w.end
               /\ w.end < v.start
               /\ call.result.start = v.end + 1

\* C17: allocateWorkingMinutes. On a calendar with non-overlapping shifts
\* (startHour < endHour), for every duration >= 0 the instant R returned
\* is such that the working time in [normalizeToWorkingTime(start), R) is
\* exactly durationMinutes, and R lies in a shift or at the end of one;
\* also when two shifts are back to back.
C17_AllocateWorkingMinutes ==
    (/\ Called("allocateWorkingMinutes")
     /\ ShiftsValid(simpleWorkCenterCalendar)
     /\ ShiftsDisjoint(simpleWorkCenterCalendar)
     /\ call.result.threw = "none") =>
        LET cal == simpleWorkCenterCalendar
            from == normalizeToWorkingTime(cal, call.time).value
            R == call.result.value
        IN  /\ WorkingMs(cal, from, R) = call.durationMinutes * MsPerMinute
            /\ isWorkingTime(cal, R) \/ IsShiftEnd(cal, R)

\* The arrays given to the constructor are malformed: windows not sorted
\* by start, windows that overlap, a shift whose hours are not a range.
Malformed(args) ==
    \/ \E k \in DOMAIN args.maintenanceWindows :
       \E l \in DOMAIN args.maintenanceWindows :
           /\ k < l
           /\ \/ args.maintenanceWindows[l].start < args.maintenanceWindows[k].start
              \/ Overlap(args.maintenanceWindows[k].start,
                         args.maintenanceWindows[k].end,
                         args.maintenanceWindows[l].start,
                         args.maintenanceWindows[l].end)
    \/ \E i \in DOMAIN args.shifts : ~ValidShift(args.shifts[i])

\* C18: Calendar validation. A calendar is never constructed from
\* overlapping or unsorted maintenance windows or from a shift with
\* startHour >= endHour: the constructor rejects them, so no allocation
\* method runs on a malformed calendar.
C18_CalendarValidation ==
    Malformed(constructorArgs) => calendarPc = "new"

----------------------------------------------------------------------------
(* Termination of allocateAroundMaintenance.                               *)

Allocating == calendarPc = "allocating"
AllocationReturned == calendarPc = "returned" /\ call.method = "allocateAroundMaintenance"

\* C31: allocateAroundMaintenance terminates. For every finite set of
\* windows (overlapping, nested or of length zero too), every earliest
\* instant and every duration >= 0 the while (true) loop returns, after
\* at most one non-returning iteration per maintenance window: such an
\* iteration moves the cursor forward, strictly past the end of the window
\* it was given, and that window is never given again.
C31_AllocateAroundTerminates ==
    /\ <>AllocationReturned
    /\ []((Allocating \/ AllocationReturned) =>
             LET windows == simpleWorkCenterCalendar.maintenanceWindows
             IN  /\ NoDuplicates(call.skipped)
                 /\ Len(call.skipped) <= Len(windows)
                 /\ call.iterations <= Len(windows) + 1
                 /\ \A i \in DOMAIN call.skipped :
                        windows[call.skipped[i]].end < call.cursor
                 /\ getNextMaintenanceAfter(simpleWorkCenterCalendar, call.cursor)
                        \notin Range(call.skipped)
                 /\ AllocationReturned =>
                        call.result = allocateAroundMaintenance(
                            simpleWorkCenterCalendar, call.time,
                            call.durationMinutes))
    /\ [][(Allocating /\ Allocating') => call'.cursor > call.cursor]_vars

\* The method has returned after four iterations on three windows, two of
\* them overlapping and one of length zero: one iteration moved the cursor
\* past each window and the last one found no window left.
C31_Witness ==
    /\ AllocationReturned
    /\ Len(simpleWorkCenterCalendar.maintenanceWindows) = 3
    /\ Len(call.skipped) = 3
    /\ call.iterations = 4
    /\ \E i \in 1..3 :
           LET w == simpleWorkCenterCalendar.maintenanceWindows[i]
           IN  w.start = w.end
    /\ \E i \in 1..3 : \E j \in 1..3 :
           LET w == simpleWorkCenterCalendar.maintenanceWindows[i]
               v == simpleWorkCenterCalendar.maintenanceWindows[j]
           IN  i # j /\ w.start < v.start /\ v.start < w.end

====
